---------------------------- MODULE Spec2Model ----------------------------
(***************************************************************************)
(* SotReemController (pal-robotics/reem_controllers, sot_controller).      *)
(*                                                                         *)
(* The repository holds two builds of the controller class:                *)
(*   "current": src/sot_controller/src/sot_reem_controller.cpp             *)
(*   "legacy" : src/unnamed/part_000 (worker thread + condition variable)  *)
(* Only one of them is linked into a plugin, so the build is a choice made *)
(* once, in Init (variable variant).                                       *)
(*                                                                         *)
(* Modelled: the constructor / workThread handshake of the legacy build,   *)
(* the host-callable methods init, starting, update and the destructor of  *)
(* both builds, the hardware interface (joint commands by joint name) and  *)
(* the engine device behind device_.  The controller only calls           *)
(* SotReemDevice: the device's lifecycle and the length of its state       *)
(* vector follow the specification (sections 3, 4.3, properties P4-P6).    *)
(***************************************************************************)
EXTENDS Integers, Sequences, FiniteSets, TLC

(***************************************************************************)
(* Bounds of the model.                                                    *)
(***************************************************************************)
\* longest joint-name array read from the parameter server
MaxLen == 2
\* engine units: components of the state vector are 0..MaxVal
MaxVal == 1
\* runPython is applied to logs of fewer than MaxLog lines
MaxLog == 2

(***************************************************************************)
(* Environment: hardware joints, parameter values, interpreter results.    *)
(***************************************************************************)
\* joints registered in the hardware interface
Joints == {"hip", "knee"}

\* a default-constructed hardware_interface::JointHandle
NullHandle == "null"

Vals == 0..MaxVal

\* elements an XmlRpc array may hold: strings (resolvable or not) and a non-string
ElemPool ==
  { [type |-> "TypeString", val |-> "hip"],
    [type |-> "TypeString", val |-> "knee"],
    [type |-> "TypeString", val |-> "ghost"],
    [type |-> "TypeInt",    val |-> "7"] }

SeqsUpTo(S, n) == UNION { [1..k -> S] : k \in 0..n }

\* what nh.getParam("jrl_map", joint_names) can deliver
NoParam == [has |-> FALSE, type |-> "TypeInvalid", val |-> <<>>]

Params ==
  { NoParam, [has |-> TRUE, type |-> "TypeInt", val |-> <<>>] }
  \cup { [has |-> TRUE, type |-> "TypeArray", val |-> s] : s \in SeqsUpTo(ElemPool, MaxLen) }

\* the bootstrap commands of init / startupPython, in order
Commands ==
  << "import sys, os",
     "pythonpath = os.environ['PYTHONPATH']",
     "path = []",
     "for p in pythonpath.split(':'): if p not in sys.path: path.append(p)",
     "path.extend(sys.path)",
     "sys.path = path",
     "sys.argv = 'reem'",
     "import startup" >>

NCmds == Len(Commands)

\* the command whose result is "<NULL>" in the sampled interpreter runs: none (0),
\* an early one, the last one
FailPoints == {0, 2, NCmds}

\* results of interpreter.runCommand for the bootstrap commands: the first command
\* yields a value, the command at the fail point "<NULL>", the others "None"
ResultSeqs ==
  { [i \in 1..NCmds |-> IF i = f THEN "<NULL>" ELSE IF i = 1 THEN "val" ELSE "None"] :
      f \in FailPoints }

LOG_PYTHON == "/tmp/sot_reem_controller.out"

\* what interpreter.runCommand can leave in lres: the two values runPython tests
\* for, a value, and the empty string lres is initialised with
PyResults == {"None", "<NULL>", "val", ""}

(***************************************************************************)
(* runPython: echo the command, run it, classify the result.               *)
(***************************************************************************)
\* the message of the runtime_error runPython throws
BootstrapErrorText ==
  << "Exception catched during sot controller initialization, please check the log file: ",
     LOG_PYTHON >>

runPython_NoThrow(file, command, lres) ==
  [file |-> Append(file, <<">>> ", command>>), threw |-> FALSE, what |-> <<>>]

\* the result is written whenever it is not "<NULL>", "None" included
runPython_WritesNone(file, command, lres) ==
  LET echoed == Append(file, <<">>> ", command>>) IN
  IF lres = "<NULL>"
    THEN [file  |-> echoed \o << <<"lout">>, <<"------">>, <<"lerr">> >>,
          threw |-> TRUE, what |-> BootstrapErrorText]
    ELSE [file |-> Append(echoed, <<lres>>), threw |-> FALSE, what |-> <<>>]

\* file: the lines of the log so far; a line is the tuple of what was streamed
\* into it.  lout and lerr stand for the texts the interpreter returned.
\* threw, what: whether a runtime_error left the function, and its message
runPython(file, command, lres) ==
  LET echoed == Append(file, <<">>> ", command>>) IN
  IF lres # "None"
    THEN IF lres = "<NULL>"
           THEN [file  |-> echoed \o << <<"lout">>, <<"------">>, <<"lerr">> >>,
                 threw |-> TRUE, what |-> BootstrapErrorText]
           ELSE [file |-> Append(echoed, <<lres>>), threw |-> FALSE, what |-> <<>>]
    ELSE [file |-> echoed, threw |-> FALSE, what |-> <<>>]

(***************************************************************************)
(* The bootstrap sequence: the commands run in order, the first throw      *)
(* leaves the sequence.  ran is the number of commands handed to the       *)
(* interpreter.                                                            *)
(***************************************************************************)
RECURSIVE RunFrom(_, _, _)
RunFrom(file, results, i) ==
  IF i > NCmds
    THEN [file |-> file, ran |-> i - 1, threw |-> FALSE]
    ELSE LET r == runPython(file, Commands[i], results[i]) IN
         IF r.threw
           THEN [file |-> r.file, ran |-> i, threw |-> TRUE]
           ELSE RunFrom(r.file, results, i + 1)

startupPython(results) == RunFrom(<<>>, results, 1)

(***************************************************************************)
(* Hardware collaborator: getHandle(name) gives a handle on the named      *)
(* joint or throws.  A handle is an accessor of the joint it names.        *)
(***************************************************************************)
getHandle(name) ==
  IF name \in Joints
    THEN [threw |-> FALSE, handle |-> name]
    ELSE [threw |-> TRUE,  handle |-> NullHandle]

(***************************************************************************)
(* The binding loop of init: joints_tmp is filled in index order; the      *)
(* first non-string element or unresolvable name leaves init.              *)
(* req lists the names getHandle was called with.                          *)
(***************************************************************************)
RECURSIVE BindFrom(_, _, _, _)
BindFrom(names, i, tmp, req) ==
  IF i > Len(names)
    THEN [ok |-> TRUE, cause |-> "none", at |-> 0, tmp |-> tmp, req |-> req]
    ELSE IF names[i].type # "TypeString"
      THEN [ok |-> FALSE, cause |-> "MalformedSpec", at |-> i, tmp |-> tmp, req |-> req]
      ELSE LET h == getHandle(names[i].val) IN
           IF h.threw
             THEN [ok |-> FALSE, cause |-> "JointNotFound", at |-> i, tmp |-> tmp,
                   req |-> Append(req, names[i].val)]
             ELSE BindFrom(names, i + 1, [tmp EXCEPT ![i] = h.handle],
                           Append(req, names[i].val))

BindJoints_Reversed(names) ==
  LET b == BindFrom(names, 1, [k \in 1..Len(names) |-> NullHandle], <<>>) IN
  [b EXCEPT !.tmp = [k \in 1..Len(names) |-> b.tmp[Len(names) + 1 - k]]]

BindJoints(names) ==
  BindFrom(names, 1, [k \in 1..Len(names) |-> NullHandle], <<>>)

\* the member list is assigned once, after the loop: joints_ = joints_tmp
AssignJoints_NoTemp(old, b) == b.tmp

\* the handles of a bind are added to the member list
AssignJoints_Append(old, b) == IF b.ok THEN old \o b.tmp ELSE old

AssignJoints(old, b) == IF b.ok THEN b.tmp ELSE old

\* index of the first element of the array that is not a string, 0 if none
NonStringAt(val) ==
  IF \E i \in 1..Len(val) : val[i].type # "TypeString"
    THEN CHOOSE i \in 1..Len(val) :
           /\ val[i].type # "TypeString"
           /\ \A k \in 1..(i - 1) : val[k].type = "TypeString"
    ELSE 0

\* index of the first string of the array that names no joint of the hardware,
\* 0 if none
UnknownAt(val) ==
  IF \E i \in 1..Len(val) : val[i].type = "TypeString" /\ val[i].val \notin Joints
    THEN CHOOSE i \in 1..Len(val) :
           /\ val[i].type = "TypeString" /\ val[i].val \notin Joints
           /\ \A k \in 1..(i - 1) :
                ~(val[k].type = "TypeString" /\ val[k].val \notin Joints)
    ELSE 0

\* the parameter as the parameter server delivered it to an init that read it
ParamShape(read, param) ==
  IF ~read THEN [kind |-> "notread", badAt |-> 0, ghostAt |-> 0]
  ELSE IF ~param.has THEN [kind |-> "missing", badAt |-> 0, ghostAt |-> 0]
  ELSE IF param.type # "TypeArray"
    THEN [kind |-> "notarray", badAt |-> 0, ghostAt |-> 0]
    ELSE [kind |-> "array", badAt |-> NonStringAt(param.val),
          ghostAt |-> UnknownAt(param.val)]

\* a getHandle that succeeds registers a claim on the joint in the hardware
\* interface; init holds no statement that gives a claim back
ClaimsHeld(req) == { req[i] : i \in 1..Len(req) } \cap Joints

(***************************************************************************)
(* The engine device behind device_ (SotReemDevice), from the              *)
(* specification: Constructed -> Ready -> Running -> Stopped, one way;     *)
(* a call out of order is rejected and leaves the engine as it was; stop   *)
(* is always accepted; the state vector has one component per joint.       *)
(***************************************************************************)
DeviceAccepts_Any(op, s) == TRUE

\* the device takes an init in whatever state it is
DeviceAccepts_Reinit(op, s) ==
  CASE op = "init"     -> TRUE
    [] op = "starting" -> s = "Ready"
    [] op = "step"     -> s = "Running"
    [] op = "stop"     -> TRUE

DeviceAccepts(op, s) ==
  CASE op = "init"     -> s = "Constructed"
    [] op = "starting" -> s = "Ready"
    [] op = "step"     -> s = "Running"
    [] op = "stop"     -> TRUE

DeviceAfter(op, s) ==
  CASE op = "init"     -> "Ready"
    [] op = "starting" -> "Running"
    [] op = "step"     -> "Running"
    [] op = "stop"     -> "Stopped"

\* position of a state in the lifecycle of the engine
LifecycleRank(s) ==
  CASE s = "Uninitialized" -> 0
    [] s = "Constructed"   -> 1
    [] s = "Ready"         -> 2
    [] s = "Running"       -> 3
    [] s = "Stopped"       -> 4

GetStateLen_Short(js) == IF Len(js) > 0 THEN Len(js) - 1 ELSE 0

GetStateLen(js) == Len(js)


(***************************************************************************)
(* State.                                                                  *)
(***************************************************************************)
VARIABLES
  variant,        \* "legacy" | "current": which build of the class is linked
  ctorPc,         \* position of the constructing thread in the constructor
  workerPc,       \* position of workThread (legacy)
  mut,            \* owner of the mutex mut: "none" | "ctor" | "worker"
  data_ready,     \* the global readiness flag
  interpreter_,   \* 0: null pointer; n > 0: the n-th Interpreter created
  rosService,     \* interpreters whose ROS service was started
  joints_,        \* the member list of joint handles
  cmd,            \* hardware: the command of each joint
  devState,       \* lifecycle of the engine device behind device_
  serviceThread,  \* the device's service thread runs (startThread/stopThread)
  initOk,         \* some init() has returned true
  startedOk,      \* some starting() has returned
  alive,          \* the controller object has not been destroyed
  crashed,        \* "no" | "assert" | "segv": the process died
  last            \* the last host call: its inputs and its outcome

vars == << variant, ctorPc, workerPc, mut, data_ready, interpreter_, rosService,
           joints_, cmd, devState, serviceThread, initOk, startedOk,
           alive, crashed, last >>

threadVars == << ctorPc, workerPc, mut, data_ready >>

hostVars == << rosService, joints_, cmd, devState, serviceThread, initOk,
               startedOk, last >>

\* op, ret: the method called and how it ended ("true", "false", "void", or
\*   "rejected": an error of the device left the method)
\* cause, at: why init failed, and the array index it failed at
\* results: what the interpreter answered to the bootstrap commands of an init
\* ran: bootstrap commands handed to the interpreter; req: names getHandle was
\*   called with; names: the joint-name array of an init that bound every joint
\* devInit, started, stepsRun: the device's init, starting, step ran in the call
\* state: the state vector read by update; oob: update read past its end
\* shape: what the joint-name parameter read by an init looked like
\* held: joints claimed on the hardware by the getHandle calls of an init and
\*   not released when it returned
NoShape == [kind |-> "notread", badAt |-> 0, ghostAt |-> 0]

NoCall ==
  [op |-> "none", ret |-> "none", cause |-> "none", at |-> 0, results |-> <<>>,
   ran |-> 0,
   req |-> <<>>, names |-> <<>>, state |-> <<>>, devInit |-> FALSE,
   started |-> FALSE, stepsRun |-> 0, oob |-> FALSE,
   shape |-> NoShape, held |-> {}]

Call(op, ret) == [NoCall EXCEPT !.op = op, !.ret = ret]

Init ==
  /\ variant \in {"legacy", "current"}
  /\ ctorPc = "begin"
  /\ workerPc = "idle"
  /\ mut = "none"
  /\ data_ready = FALSE
  /\ interpreter_ = 0
  /\ rosService = {}
  /\ joints_ = <<>>
  /\ cmd = [j \in Joints |-> 0]
  /\ devState = "Uninitialized"
  /\ serviceThread = FALSE
  /\ initOk = FALSE
  /\ startedOk = FALSE
  /\ alive = TRUE
  /\ crashed = "no"
  /\ last = NoCall

(***************************************************************************)
(* current build: the constructor only builds the members.                 *)
(***************************************************************************)
Construct ==
  /\ variant = "current"
  /\ ctorPc = "begin"
  /\ ctorPc' = "returned"
  /\ devState' = "Constructed"
  /\ UNCHANGED << variant, workerPc, mut, data_ready, interpreter_, rosService,
                  joints_, cmd, serviceThread, initOk, startedOk, alive,
                  crashed, last >>

(***************************************************************************)
(* legacy build: the constructor spawns workThread, locks mut and waits    *)
(* on cond (a bare wait: no flag is tested).                               *)
(***************************************************************************)
\* device_ ("robot_device"), boost::thread thr(workThread, this)
CtorSpawn ==
  /\ variant = "legacy"
  /\ ctorPc = "begin"
  /\ ctorPc' = "spawned"
  /\ workerPc' = "start"
  /\ devState' = "Constructed"
  /\ UNCHANGED << variant, mut, data_ready, interpreter_, rosService, joints_, cmd,
                  serviceThread, initOk, startedOk, alive, crashed, last >>

\* boost::unique_lock<boost::mutex> lock(mut)
CtorLock ==
  /\ ctorPc = "spawned"
  /\ mut = "none"
  /\ mut' = "ctor"
  /\ ctorPc' = "locked"
  /\ UNCHANGED << variant, workerPc, data_ready, interpreter_, alive, crashed >>
  /\ UNCHANGED hostVars

\* cond.wait(lock): the mutex is released and the thread blocks, atomically
CtorWait ==
  /\ ctorPc = "locked"
  /\ mut' = "none"
  /\ ctorPc' = "waiting"
  /\ UNCHANGED << variant, workerPc, data_ready, interpreter_, alive, crashed >>
  /\ UNCHANGED hostVars

\* a condition wait may end without a notification
SpuriousWake ==
  /\ ctorPc = "waiting"
  /\ ctorPc' = "woken"
  /\ UNCHANGED << variant, workerPc, mut, data_ready, interpreter_, alive, crashed >>
  /\ UNCHANGED hostVars

\* the woken thread takes the mutex again and cond.wait returns
CtorWake ==
  /\ ctorPc = "woken"
  /\ mut = "none"
  /\ mut' = "ctor"
  /\ ctorPc' = "relocked"
  /\ UNCHANGED << variant, workerPc, data_ready, interpreter_, alive, crashed >>
  /\ UNCHANGED hostVars

\* end of the constructor: lock is released, thr is detached
CtorReturn ==
  /\ ctorPc = "relocked"
  /\ mut' = "none"
  /\ ctorPc' = "returned"
  /\ UNCHANGED << variant, workerPc, data_ready, interpreter_, alive, crashed >>
  /\ UNCHANGED hostVars

(***************************************************************************)
(* workThread (legacy).                                                    *)
(***************************************************************************)
\* aSoTReem->interpreter_ = make_shared<Interpreter>(aLocalInterpreter);
\* the controller may be gone by then: a write through a dangling pointer
WorkerAssign ==
  /\ workerPc = "start"
  /\ crashed = "no"
  /\ workerPc' = "assigned"
  /\ IF alive
       THEN /\ interpreter_' = 1
            /\ crashed' = crashed
       ELSE /\ interpreter_' = interpreter_
            /\ crashed' \in {"no", "segv"}
  /\ UNCHANGED << variant, ctorPc, mut, data_ready, alive >>
  /\ UNCHANGED hostVars

\* boost::lock_guard<boost::mutex> lock(mut)
WorkerLock ==
  /\ workerPc = "assigned"
  /\ crashed = "no"
  /\ mut = "none"
  /\ mut' = "worker"
  /\ workerPc' = "locked"
  /\ UNCHANGED << variant, ctorPc, data_ready, interpreter_, alive, crashed >>
  /\ UNCHANGED hostVars

\* the worker writes false to the flag
WorkerSetReady_Cleared ==
  /\ workerPc = "locked"
  /\ crashed = "no"
  /\ data_ready' = FALSE
  /\ workerPc' = "set"
  /\ UNCHANGED << variant, ctorPc, mut, interpreter_, alive, crashed >>
  /\ UNCHANGED hostVars

\* data_ready = true
WorkerSetReady ==
  /\ workerPc = "locked"
  /\ crashed = "no"
  /\ data_ready' = TRUE
  /\ workerPc' = "set"
  /\ UNCHANGED << variant, ctorPc, mut, interpreter_, alive, crashed >>
  /\ UNCHANGED hostVars

\* end of the guarded block
WorkerUnlock ==
  /\ workerPc = "set"
  /\ crashed = "no"
  /\ mut' = "none"
  /\ workerPc' = "unlocked"
  /\ UNCHANGED << variant, ctorPc, data_ready, interpreter_, alive, crashed >>
  /\ UNCHANGED hostVars

\* cond.notify_all(): wakes the threads waiting now, and only those;
\* then ros::waitForShutdown()
WorkerNotify ==
  /\ workerPc = "unlocked"
  /\ crashed = "no"
  /\ ctorPc' = IF ctorPc = "waiting" THEN "woken" ELSE ctorPc
  /\ workerPc' = "serving"
  /\ UNCHANGED << variant, mut, data_ready, interpreter_, alive, crashed >>
  /\ UNCHANGED hostVars

workThread ==
  \/ WorkerAssign
  \/ WorkerLock
  \/ WorkerSetReady
  \/ WorkerUnlock
  \/ WorkerNotify

Constructor ==
  \/ Construct
  \/ CtorSpawn
  \/ CtorLock
  \/ CtorWait
  \/ CtorWake
  \/ CtorReturn

(***************************************************************************)
(* init: bootstrap, joint names from the parameter server, binding loop,   *)
(* assignment of joints_, device init.  InitSteps is the path through the  *)
(* body from the end of the bootstrap (boot: how startupPython ended) up   *)
(* to the call of the device's init.                                       *)
(***************************************************************************)
\* the parameter's type is not tested before the binding loop
InitSteps_NoTypeCheck(boot, param, old) ==
  LET b    == BindJoints(param.val)
      none == [ret |-> "false", cause |-> "none", at |-> 0, ran |-> boot.ran,
               req |-> <<>>, names |-> <<>>, joints |-> old, booted |-> TRUE,
               bound |-> FALSE]
  IN
  IF boot.threw
    THEN [none EXCEPT !.cause = "BootstrapError", !.booted = FALSE]
    ELSE IF ~param.has
      THEN [none EXCEPT !.cause = "MissingConfig"]
      ELSE [none EXCEPT !.ret    = IF b.ok THEN "true" ELSE "false",
                        !.cause  = b.cause,
                        !.at     = b.at,
                        !.names  = IF b.ok THEN param.val ELSE <<>>,
                        !.req    = b.req,
                        !.joints = AssignJoints(old, b),
                        !.bound  = b.ok]

\* the device's init is reached whenever the parameter is an array, whether the
\* binding loop went through or not
InitSteps_DevInitEarly(boot, param, old) ==
  LET b    == BindJoints(param.val)
      none == [ret |-> "false", cause |-> "none", at |-> 0, ran |-> boot.ran,
               req |-> <<>>, names |-> <<>>, joints |-> old, booted |-> TRUE,
               bound |-> FALSE]
  IN
  IF boot.threw
    THEN [none EXCEPT !.cause = "BootstrapError", !.booted = FALSE]
    ELSE IF ~param.has
      THEN [none EXCEPT !.cause = "MissingConfig"]
      ELSE IF param.type # "TypeArray"
        THEN [none EXCEPT !.cause = "MalformedSpec"]
        ELSE [none EXCEPT !.ret    = IF b.ok THEN "true" ELSE "false",
                          !.cause  = b.cause,
                          !.at     = b.at,
                          !.names  = IF b.ok THEN param.val ELSE <<>>,
                          !.req    = b.req,
                          !.joints = AssignJoints(old, b),
                          !.bound  = TRUE]

InitSteps(boot, param, old) ==
  LET b    == BindJoints(param.val)
      none == [ret |-> "false", cause |-> "none", at |-> 0, ran |-> boot.ran,
               req |-> <<>>, names |-> <<>>, joints |-> old, booted |-> TRUE,
               bound |-> FALSE]
  IN
  IF boot.threw
    THEN [none EXCEPT !.cause = "BootstrapError", !.booted = FALSE]
    ELSE IF ~param.has
      THEN [none EXCEPT !.cause = "MissingConfig"]
      ELSE IF param.type # "TypeArray"
        THEN [none EXCEPT !.cause = "MalformedSpec"]
        ELSE [none EXCEPT !.ret    = IF b.ok THEN "true" ELSE "false",
                          !.cause  = b.cause,
                          !.at     = b.at,
                          !.names  = IF b.ok THEN param.val ELSE <<>>,
                          !.req    = b.req,
                          !.joints = AssignJoints(old, b),
                          !.bound  = b.ok]

\* the outcome of a call of init, given the device's answer to device init
InitCall(r, results, accepted) ==
  [Call("init", IF r.bound /\ ~accepted THEN "rejected" ELSE r.ret) EXCEPT
     !.cause = r.cause, !.at = r.at, !.results = results, !.ran = r.ran,
     !.req = r.req,
     !.names = r.names, !.devInit = r.bound /\ accepted]

\* interpreter_.reset(new dynamicgraph::Interpreter(controller_nh))
FreshInterpreter(old) == IF old = 1 THEN 2 ELSE 1

init ==
  /\ variant = "current"
  /\ ctorPc = "returned" /\ alive /\ crashed = "no"
  /\ \E results \in ResultSeqs :
     \E boot \in {startupPython(results)} :
     \E param \in IF boot.threw THEN {NoParam} ELSE Params :
     \E r \in {InitSteps(boot, param, joints_)} :
       LET fresh    == FreshInterpreter(interpreter_)
           accepted == DeviceAccepts("init", devState)
       IN
       /\ interpreter_' = fresh
       /\ rosService' = IF r.booted
                          THEN (rosService \ {interpreter_}) \cup {fresh}
                          ELSE rosService \ {interpreter_}
       /\ joints_' = r.joints
       /\ devState' = IF r.bound /\ accepted THEN DeviceAfter("init", devState)
                      ELSE devState
       /\ initOk' = (initOk \/ (r.bound /\ accepted))
       /\ last' = [InitCall(r, results, accepted) EXCEPT
                    !.shape = ParamShape(~boot.threw, param),
                    !.held = ClaimsHeld(r.req)]
  /\ UNCHANGED << variant, cmd, serviceThread, startedOk, alive, crashed >>
  /\ UNCHANGED threadVars

\* legacy: startupPython() dereferences interpreter_, which workThread assigns
init_legacy ==
  /\ variant = "legacy"
  /\ ctorPc = "returned" /\ alive /\ crashed = "no"
  /\ IF interpreter_ = 0
       THEN /\ crashed' \in {"assert", "segv"}
            /\ UNCHANGED << joints_, devState, initOk, last >>
       ELSE /\ \E results \in ResultSeqs :
               \E boot \in {startupPython(results)} :
               \E param \in IF boot.threw THEN {NoParam} ELSE Params :
               \E r \in {InitSteps(boot, param, joints_)} :
                 LET accepted == DeviceAccepts("init", devState) IN
                 /\ joints_' = r.joints
                 /\ devState' = IF r.bound /\ accepted
                                  THEN DeviceAfter("init", devState)
                                  ELSE devState
                 /\ initOk' = (initOk \/ (r.bound /\ accepted))
                 /\ last' = [InitCall(r, results, accepted) EXCEPT
                              !.shape = ParamShape(~boot.threw, param),
                              !.held = ClaimsHeld(r.req)]
            /\ UNCHANGED crashed
  /\ UNCHANGED << variant, interpreter_, rosService, cmd, serviceThread, startedOk,
                  alive >>
  /\ UNCHANGED threadVars

(***************************************************************************)
(* starting: the device is started with joints_; a range_error is caught.  *)
(* An error of another type leaves starting.                               *)
(***************************************************************************)
\* the range_error of the device's starting propagates out of starting()
StartingCall_NoCatch(accepted, rangeErr) ==
  [Call("starting", IF ~accepted THEN "rejected"
                    ELSE IF rangeErr THEN "threw" ELSE "void") EXCEPT
     !.cause = IF accepted /\ rangeErr THEN "RangeError" ELSE "none",
     !.started = accepted]

\* try { device starting } catch (std::range_error) { log }: the range error
\* ends in the catch block and the call goes on
StartingCall(accepted, rangeErr) ==
  [Call("starting", IF accepted THEN "void" ELSE "rejected") EXCEPT
     !.cause = IF accepted /\ rangeErr THEN "RangeError" ELSE "none",
     !.started = accepted]

starting ==
  /\ variant = "current"
  /\ ctorPc = "returned" /\ alive /\ crashed = "no"
  /\ \E rangeErr \in BOOLEAN :
       LET accepted == DeviceAccepts("starting", devState)
           call == StartingCall(accepted, rangeErr)
       IN
       /\ devState' = IF accepted THEN DeviceAfter("starting", devState) ELSE devState
       \* device_->startThread(), the statement after the try block
       /\ serviceThread' = IF call.ret = "void" THEN TRUE ELSE serviceThread
       /\ startedOk' = (startedOk \/ call.ret = "void")
       /\ last' = call
  /\ UNCHANGED << variant, interpreter_, rosService, joints_, cmd, initOk, alive,
                  crashed >>
  /\ UNCHANGED threadVars

starting_legacy ==
  /\ variant = "legacy"
  /\ ctorPc = "returned" /\ alive /\ crashed = "no"
  /\ \E rangeErr \in BOOLEAN :
       LET accepted == DeviceAccepts("starting", devState)
           call == StartingCall(accepted, rangeErr)
       IN
       /\ devState' = IF accepted THEN DeviceAfter("starting", devState) ELSE devState
       /\ startedOk' = (startedOk \/ call.ret = "void")
       /\ last' = call
  /\ UNCHANGED << variant, interpreter_, rosService, joints_, cmd, serviceThread,
                  initOk, alive, crashed >>
  /\ UNCHANGED threadVars

(***************************************************************************)
(* update: one engine step, then the state vector is written to the        *)
(* handles by index.  A read past the end of the vector yields junk.       *)
(***************************************************************************)
RECURSIVE WriteFrom(_, _, _, _, _)
WriteFrom(c, js, state, i, junk) ==
  IF i > Len(js)
    THEN c
    ELSE WriteFrom([c EXCEPT ![js[i]] = IF i <= Len(state) THEN state[i] ELSE junk],
                   js, state, i + 1, junk)

WriteBack_Stale(c, js, state, junk) == c

WriteBack(c, js, state, junk) == WriteFrom(c, js, state, 1, junk)

UpdateCall(accepted, state, js) ==
  [Call("update", IF accepted THEN "void" ELSE "rejected") EXCEPT
     !.state = IF accepted THEN state ELSE <<>>,
     !.stepsRun = IF accepted THEN 1 ELSE 0,
     !.oob = accepted /\ Len(js) > Len(state)]

update ==
  /\ variant = "current"
  /\ ctorPc = "returned" /\ alive /\ crashed = "no"
  /\ \E state \in [1..GetStateLen(joints_) -> Vals] :
     \E junk \in IF Len(joints_) > Len(state) THEN Vals ELSE {0} :
       LET accepted == DeviceAccepts("step", devState) IN
       /\ devState' = IF accepted THEN DeviceAfter("step", devState) ELSE devState
       /\ cmd' = IF accepted THEN WriteBack(cmd, joints_, state, junk) ELSE cmd
       /\ last' = UpdateCall(accepted, state, joints_)
  /\ UNCHANGED << variant, interpreter_, rosService, joints_, serviceThread, initOk,
                  startedOk, alive, crashed >>
  /\ UNCHANGED threadVars

\* legacy: device_.update(time, period, joints_) steps and writes the commands
update_legacy ==
  /\ variant = "legacy"
  /\ ctorPc = "returned" /\ alive /\ crashed = "no"
  /\ \E state \in [1..GetStateLen(joints_) -> Vals] :
     \E junk \in IF Len(joints_) > Len(state) THEN Vals ELSE {0} :
       LET accepted == DeviceAccepts("step", devState) IN
       /\ devState' = IF accepted THEN DeviceAfter("step", devState) ELSE devState
       /\ cmd' = IF accepted THEN WriteFrom(cmd, joints_, state, 1, junk) ELSE cmd
       /\ last' = UpdateCall(accepted, state, joints_)
  /\ UNCHANGED << variant, interpreter_, rosService, joints_, serviceThread, initOk,
                  startedOk, alive, crashed >>
  /\ UNCHANGED threadVars

(***************************************************************************)
(* The destructor.                                                         *)
(***************************************************************************)
\* current: device_->stopThread(), then the joint positions are logged
Destroy ==
  /\ variant = "current"
  /\ ctorPc = "returned" /\ alive /\ crashed = "no"
  /\ devState' = DeviceAfter("stop", devState)
  /\ serviceThread' = FALSE
  /\ alive' = FALSE
  /\ last' = Call("destroy", "void")
  /\ UNCHANGED << variant, interpreter_, rosService, joints_, cmd, initOk, startedOk,
                  crashed >>
  /\ UNCHANGED threadVars

\* legacy: the joint positions are logged; workThread is left as it is
Destroy_legacy ==
  /\ variant = "legacy"
  /\ ctorPc = "returned" /\ alive /\ crashed = "no"
  /\ alive' = FALSE
  /\ last' = Call("destroy", "void")
  /\ UNCHANGED << variant, interpreter_, rosService, joints_, cmd, devState,
                  serviceThread, initOk, startedOk, crashed >>
  /\ UNCHANGED threadVars

Host ==
  \/ init
  \/ init_legacy
  \/ starting
  \/ starting_legacy
  \/ update
  \/ update_legacy
  \/ Destroy
  \/ Destroy_legacy

Next ==
  \/ Constructor
  \/ SpuriousWake
  \/ workThread
  \/ Host

Spec == Init /\ [][Next]_vars

\* the scheduler runs every thread that can run; nothing makes a condition
\* wait end without a notification
LiveSpec ==
  /\ Init
  /\ [][Next]_vars
  /\ WF_vars(Constructor)
  /\ WF_vars(workThread)

(***************************************************************************)
(* runPython on its own: the function is applied to a log, a command and   *)
(* a result of the interpreter, again and again on the log it leaves.      *)
(* last holds the arguments of the last application and what it returned.  *)
(***************************************************************************)
PyCall(file, command, lres) ==
  [op |-> "runPython", file |-> file, command |-> command, lres |-> lres,
   out |-> runPython(file, command, lres)]

\* the log a further runPython is applied to
LogOf(call) == IF call.op = "runPython" THEN call.out.file ELSE <<>>

InitPy == Init /\ variant = "current"

runPythonStep ==
  /\ Len(LogOf(last)) < MaxLog
  /\ \E command \in { Commands[i] : i \in 1..NCmds } :
     \E lres \in PyResults :
       last' = PyCall(LogOf(last), command, lres)
  /\ UNCHANGED << variant, interpreter_, alive, crashed >>
  /\ UNCHANGED << rosService, joints_, cmd, devState, serviceThread, initOk,
                  startedOk >>
  /\ UNCHANGED threadVars

NextPy == runPythonStep

SpecPy == InitPy /\ [][NextPy]_vars

(***************************************************************************)
(* Claims.                                                                 *)
(***************************************************************************)
WorkerRunning == workerPc # "idle"

\* index of the first bootstrap command answered "<NULL>", 0 if there is none
FirstNull(results) ==
  IF \E i \in 1..Len(results) : results[i] = "<NULL>"
    THEN CHOOSE i \in 1..Len(results) :
           /\ results[i] = "<NULL>"
           /\ \A k \in 1..(i - 1) : results[k] # "<NULL>"
    ELSE 0

\* C1: the readiness wait never deadlocks: in every interleaving of the
\* constructor and workThread, the constructor's wait eventually returns and
\* the constructor completes (checked under LiveSpec: every thread that can run
\* does run).
C1_WaitEventuallyReturns ==
  (variant = "legacy") => <>(ctorPc = "returned")

\* C2: whenever the constructor has returned, workThread has assigned
\* interpreter_ and set data_ready, also when the wait ends without a
\* notification.
C2_ReadyBeforeReturn ==
  (variant = "legacy" /\ ctorPc = "returned") => (data_ready /\ interpreter_ # 0)

C4_BindFailsAtomically ==
  [][ (last'.op = "init" /\ last'.cause = "JointNotFound")
        => (last'.ret = "false" /\ joints_' = joints_) ]_vars

\* init failed at the second name, after a handle was obtained for the first,
\* on a controller that held a binding from an earlier init
C4_Witness ==
  /\ last.op = "init" /\ last.cause = "JointNotFound" /\ last.ret = "false"
  /\ last.at = 2 /\ Len(last.req) = 2
  /\ joints_ # <<>>

\* C5: whenever init returns false, nothing of the call is retained: joints_ is
\* unchanged, the device's init was not called, and interpreter_ and the set of
\* started ROS services are what they were (the interpreter the call created
\* and its service are not left active).
C5_NoPartialActivation ==
  [][ (last'.op = "init" /\ last'.ret = "false" /\ variant = "current"
         /\ ctorPc = "returned" /\ alive)
        => /\ joints_' = joints_
           /\ ~last'.devInit
           /\ interpreter_' = interpreter_
           /\ rosService' \subseteq rosService ]_vars

\* C6: a bootstrap failure aborts init: if a bootstrap command is answered
\* "<NULL>", the commands after the first such one are not run, init returns
\* false, getHandle is not called, joints_ is unchanged and the device's init
\* is not called.
C6_BootstrapFailureAborts ==
  [][ (last'.op = "init" /\ FirstNull(last'.results) # 0)
        => /\ last'.ret = "false"
           /\ last'.cause = "BootstrapError"
           /\ last'.ran = FirstNull(last'.results)
           /\ last'.req = <<>>
           /\ joints_' = joints_
           /\ ~last'.devInit
           /\ devState' = devState ]_vars

\* the second bootstrap command failed, on a controller that held a binding
C6_Witness ==
  /\ last.op = "init" /\ last.cause = "BootstrapError"
  /\ FirstNull(last.results) = 2 /\ last.ran = 2
  /\ joints_ # <<>>

\* C7: teardown stops the service thread: once the controller is destroyed, no
\* background thread it started is still running.
C7_TeardownStopsThread ==
  (~alive /\ crashed = "no") => (~serviceThread /\ ~WorkerRunning)

\* C8: binding preserves order: after an init that returned true on an array of
\* N names, joints_ has N handles and joints_[i] is the handle the hardware
\* gives for the i-th name.
C8_BindingPreservesOrder ==
  (last.op = "init" /\ last.ret = "true")
    => /\ Len(joints_) = Len(last.names)
       /\ \A i \in 1..Len(last.names) :
            /\ last.names[i].type = "TypeString"
            /\ joints_[i] = getHandle(last.names[i].val).handle

\* an init bound two different joints
C8_Witness ==
  /\ last.op = "init" /\ last.ret = "true"
  /\ Len(joints_) = 2 /\ joints_[1] # joints_[2]

C10_WriteBackByIndex ==
  (variant = "current" /\ last.op = "update" /\ last.stepsRun = 1)
    => \A i \in 1..Len(joints_) :
         i <= Len(last.state) /\ cmd[joints_[i]] = last.state[i]

\* C11: a range error at start is not fatal: when the device's starting raises
\* range_error, starting() returns normally, the controller is started (in the
\* current build the service thread runs), and an update() issued next steps
\* the engine as after a start without error.
C11_RangeErrorNonFatal ==
  [][ /\ (last'.op = "starting" /\ last'.cause = "RangeError")
          => /\ last'.ret = "void"
             /\ startedOk'
             /\ devState' = "Running"
             /\ (variant = "current" => serviceThread')
      /\ (last.op = "starting" /\ last.cause = "RangeError" /\ last'.op = "update")
          => (last'.ret = "void" /\ last'.stepsRun = 1) ]_vars

\* a starting() of the current build caught the device's range error with a
\* joint bound: it returned, the device runs and the service thread is started
C11_Witness ==
  /\ variant = "current"
  /\ last.op = "starting" /\ last.cause = "RangeError" /\ last.ret = "void"
  /\ startedOk /\ devState = "Running" /\ serviceThread /\ joints_ # <<>>

\* C12: readiness is signalled once: data_ready goes from false to true in one
\* step only, the step of workThread that holds the lock; no other step of any
\* thread writes it and it is never reset; workThread has set it when it
\* notifies, notifies once, and then stays in its service loop.
C12_ReadySignalledOnce ==
  [][ /\ (data_ready => data_ready')
      /\ (data_ready' # data_ready
            => /\ workerPc = "locked" /\ workerPc' = "set"
               /\ mut = "worker"
               /\ ctorPc' = ctorPc)
      /\ (workerPc' \in {"set", "unlocked", "serving"} => data_ready')
      /\ (workerPc = "unlocked" /\ workerPc' # workerPc => workerPc' = "serving")
      /\ (workerPc' = "serving" /\ workerPc # "serving" => workerPc = "unlocked")
      /\ (workerPc = "serving" => workerPc' = "serving") ]_vars

\* workThread has set the flag, notified and serves; the constructor returned
\* and the host has made a call since
C12_Witness ==
  /\ variant = "legacy"
  /\ data_ready /\ workerPc = "serving" /\ ctorPc = "returned"
  /\ last.op = "init"

\* C13: a missing or malformed configuration fails init: when the joint-name
\* parameter read by init is absent, is not an array, or holds a non-string
\* element at any position, init returns false, joints_ is what it was before
\* the call and the device's init is not called.
C13_MalformedConfigFails ==
  [][ (/\ last'.op = "init"
       /\ \/ last'.shape.kind \in {"missing", "notarray"}
          \/ (last'.shape.kind = "array" /\ last'.shape.badAt # 0))
        => /\ last'.ret = "false"
           /\ joints_' = joints_
           /\ ~last'.devInit
           /\ devState' = devState ]_vars

\* init met a non-string element at the second position, after a handle was
\* obtained for the first name, on a controller that held a binding
C13_Witness ==
  /\ last.op = "init" /\ last.shape.kind = "array" /\ last.shape.badAt = 2
  /\ last.ret = "false" /\ last.cause = "MalformedSpec" /\ Len(last.req) = 1
  /\ joints_ # <<>>

\* C14: claims obtained during a failed bind are released: when init returns
\* false at position k of the array after getHandle succeeded for the names
\* before it, none of the joints of those names is still claimed on the
\* hardware interface by this controller.
C14_ClaimsReleasedOnFailure ==
  (last.op = "init" /\ last.ret = "false" /\ last.at >= 1)
    => last.held = {}

\* C15: the steps of one init run in a fixed order, each only if all before it
\* succeeded: the bootstrap commands (up to the first that fails), then the
\* read of the joint-name parameter, then getHandle for the names in index
\* order (up to the first element that fails), then the assignment of
\* joints_, then the device's init, which runs only on the path on which init
\* returns true; init returns true exactly when every step succeeded.
C15_InitStepOrder ==
  (last.op = "init") =>
    LET bootOk == FirstNull(last.results) = 0
        sh     == last.shape
        bindOk == sh.kind = "array" /\ sh.badAt = 0 /\ sh.ghostAt = 0
        \* the first position of the array the loop cannot pass, 0 if none
        stop   == IF sh.badAt = 0 THEN sh.ghostAt
                  ELSE IF sh.ghostAt = 0 THEN sh.badAt
                  ELSE IF sh.badAt < sh.ghostAt THEN sh.badAt ELSE sh.ghostAt
    IN
    /\ last.ran = IF bootOk THEN NCmds ELSE FirstNull(last.results)
    /\ (sh.kind # "notread") <=> bootOk
    /\ (last.req # <<>>) => (sh.kind = "array")
    /\ (sh.kind = "array" /\ stop # 0)
         => /\ last.at = stop
            /\ Len(last.req) = IF stop = sh.ghostAt THEN stop ELSE stop - 1
            /\ \A i \in 1..(stop - 1) : last.req[i] \in Joints
    /\ (last.ret \in {"true", "rejected"}) <=> bindOk
    /\ bindOk => /\ Len(last.req) = Len(last.names)
                 /\ \A i \in 1..Len(last.names) : last.req[i] = last.names[i].val
                 /\ Len(joints_) = Len(last.names)
                 /\ \A i \in 1..Len(last.names) : joints_[i] = last.req[i]
    /\ last.devInit => (bindOk /\ devState = "Ready")
    /\ (last.ret = "true") <=> (bootOk /\ bindOk /\ last.devInit)

\* an init went through every step with two names: eight bootstrap commands,
\* two handles in index order, joints_ assigned, device initialised
C15_Witness ==
  /\ last.op = "init" /\ last.ret = "true" /\ last.devInit
  /\ last.ran = NCmds /\ Len(last.req) = 2 /\ last.req[1] # last.req[2]
  /\ joints_ = last.req /\ devState = "Ready"

C17_JointsFixedAfterInit ==
  [][ /\ (last'.op \in {"starting", "update"}) => joints_' = joints_
      /\ (joints_' # joints_)
           => /\ last'.op = "init"
              /\ last'.ret \in {"true", "rejected"}
              /\ joints_' = last'.req
              /\ threadVars' = threadVars /\ alive' = alive ]_vars

\* an update stepped the engine and wrote a command while two different
\* joints were bound
C17_Witness ==
  /\ last.op = "update" /\ last.stepsRun = 1
  /\ Len(joints_) = 2 /\ joints_[1] # joints_[2]
  /\ cmd[joints_[1]] = 1

\* C18: runPython classifies the result of a command: the command is echoed to
\* the log first; on "<NULL>" the output text, a separator and the error text
\* are written and a runtime_error naming the log file is thrown; on "None"
\* nothing more is written and nothing is thrown; on any other result the
\* result is written and nothing is thrown.
C18_RunPythonClassifies ==
  (last.op = "runPython") =>
    LET f    == last.file
        o    == last.out
        echo == <<">>> ", last.command>>
    IN
    /\ Len(o.file) > Len(f)
    /\ SubSeq(o.file, 1, Len(f)) = f
    /\ o.file[Len(f) + 1] = echo
    /\ (last.lres = "<NULL>")
         => /\ o.file = f \o << echo, <<"lout">>, <<"------">>, <<"lerr">> >>
            /\ o.threw
            /\ \E k \in 1..Len(o.what) : o.what[k] = LOG_PYTHON
    /\ (last.lres = "None")
         => (o.file = Append(f, echo) /\ ~o.threw)
    /\ (last.lres \notin {"<NULL>", "None"})
         => (o.file = f \o << echo, <<last.lres>> >> /\ ~o.threw)

\* runPython was applied to a log that held a line and got "<NULL>": it wrote
\* four lines after it and threw
C18_Witness ==
  /\ last.op = "runPython" /\ last.lres = "<NULL>"
  /\ Len(last.file) = 1 /\ Len(last.out.file) = 5 /\ last.out.threw

============================================================================
